---- MODULE Spec2Model ----
(***************************************************************************)
(* Model of the weewx AS3935 lightning service (bin/user/as3935.py).       *)
(*                                                                         *)
(* Two threads share self.data: the RPi.GPIO callback thread, which runs   *)
(* handle_interrupt, and the weewx engine thread, which runs read_data on  *)
(* each new archive record / loop packet.  The code takes no lock, so the  *)
(* threads interleave between any two accesses of self.data.  Each action  *)
(* below is one access of shared state together with the thread-local      *)
(* statements around it.                                                   *)
(*                                                                         *)
(* A float is modelled as an unreduced fraction <<num, den>>; Python's     *)
(* None is the empty tuple.  A list element (strike_ts, distance) is the   *)
(* pair <<ts, dist>>, so the code's x[1] is e[2] here.                      *)
(***************************************************************************)
EXTENDS Integers, Sequences, FiniteSets, TLC

\* ---------------------------------------------------------------- bounds
\* interrupts delivered, records flushed, and the largest clock reading
MaxInterrupts == 2
MaxFlushes == 2
MaxClock == 1
\* the same caps for the runs that include start-up and shutdown
MaxLifeInterrupts == 1
MaxLifeFlushes == 1

\* ------------------------------------------------------------- constants
NOISE == 1
DISTURBER == 4
STRIKE == 8
US == 1
METRIC == 16
METRICWX == 17
MileNum == 621371
MileDen == 1000000

None == <<>>

\* values the sensor's interrupt register can return (0 and 2 are none of the
\* three the handler knows)
Reasons == {0, 2, NOISE, DISTURBER, STRIKE}
\* distances (km) the sensor's distance register can return
Distances == {2, 6}
\* records the engine hands to the service
\* (the last one already carries the two fields the service writes)
Packets == {[dateTime |-> 0]} \cup
           {[dateTime |-> 0, usUnits |-> u] : u \in {US, METRIC, METRICWX}} \cup
           {[dateTime |-> 0, usUnits |-> METRIC, avg_distance |-> <<9, 1>>,
             lightning_strikes |-> 9]}
\* the two event types the service can be bound to
Events == {"loop", "archive"}

\* values of the 'binding' option ('archive' is the default)
Bindings == {"archive", "loop", "LOOP", "Loop", "other"}
\* [x[0] for x in dbm_dict['schema']]
MemCol == <<"dateTime", "usUnits", "distance">>
\* column lists the stored table can have
DbCols == {MemCol, <<"dateTime", "usUnits", "dist">>, <<"dateTime", "usUnits">>}

VARIABLES
    data,            \* self.data: the list object currently bound
    dataId,          \* identity of that list object (number of rebinds)
    data_binding,    \* self.data_binding is not None
    db,              \* rows of the lightning database (the Recorder)
    sensor,          \* [raises |-> calls of raise_noise_floor, mask |-> disturber mask]
    now,             \* int(time.time())
    h_pc,            \* handle_interrupt: control point
    h,               \* handle_interrupt: locals and per-call history
    r_pc,            \* read_data: control point
    r,               \* read_data: locals (count, avg, iterator index)
    pkt,             \* the record passed to read_data
    escaped,         \* an exception left handle_interrupt
    hist,            \* history counters
    svc              \* service lifecycle: __init__ progress, GPIO and engine bindings

vars == <<data, dataId, data_binding, db, sensor, now, h_pc, h, r_pc, r,
          pkt, escaped, hist, svc>>

\* ------------------------------------------------------ pure operators

RECURSIVE SumDist(_)
SumDist(s) == IF s = <<>> THEN 0 ELSE s[1][2] + SumDist(Tail(s))

\* avg = 0
Zero == <<0, 1>>
\* faulty variant: sums x[0], the timestamp
AddDist_Ts(avg, e) == <<avg[1] + e[1] * avg[2], avg[2]>>
\* avg += x[1]
AddDist(avg, e) == <<avg[1] + e[2] * avg[2], avg[2]>>
\* avg /= count
DivCount(avg, count) == <<avg[1], avg[2] * count>>

\* faulty variant: a record without usUnits is taken to be US
IsUS_Default(p) == "usUnits" \notin DOMAIN p \/ p["usUnits"] = US
\* 'usUnits' in pkt and pkt['usUnits'] == weewx.US
IsUS(p) == "usUnits" \in DOMAIN p /\ p["usUnits"] = US

\* faulty variant: None is converted as if it were 0
Convert_Zero(avg) == IF avg = None THEN <<0, MileDen>>
                     ELSE <<avg[1] * MileNum, avg[2] * MileDen>>
\* weewx.units.convert((avg, 'km', 'group_distance'), 'mile')[0]:
\* None stays None, a number is multiplied by 0.621371
Convert(avg) == IF avg = None THEN None
                ELSE <<avg[1] * MileNum, avg[2] * MileDen>>

\* faulty variant: a new record is built that loses usUnits
Augment_Drop(p, avg, count) ==
    [k \in (DOMAIN p \ {"usUnits"}) \cup {"avg_distance", "lightning_strikes"} |->
        IF k = "avg_distance" THEN avg
        ELSE IF k = "lightning_strikes" THEN count
        ELSE p[k]]
\* pkt['avg_distance'] = avg; pkt['lightning_strikes'] = count
Augment(p, avg, count) ==
    [k \in DOMAIN p \cup {"avg_distance", "lightning_strikes"} |->
        IF k = "avg_distance" THEN avg
        ELSE IF k = "lightning_strikes" THEN count
        ELSE p[k]]

\* faulty variant: the row is tagged weewx.US
StrikeRec_US(ts, dist) == [dateTime |-> ts, usUnits |-> US, distance |-> dist]
\* rec = {'dateTime': strike_ts, 'usUnits': weewx.METRIC, 'distance': distance}
StrikeRec(ts, dist) == [dateTime |-> ts, usUnits |-> METRIC, distance |-> dist]

\* faulty variant: except IOError
Catches_IOError(e) == e = "IOError"
\* except Exception as e
Catches(e) == e \in {"IOError", "DatabaseError"}

\* pkt_binding.lower()
Lower(b) == IF b \in {"loop", "LOOP", "Loop"} THEN "loop" ELSE b

\* faulty variant: the option is compared without lower()
BoundEvent_NoLower(b) == IF b = "loop" THEN "loop" ELSE "archive"
\* if pkt_binding.lower() == 'loop': bind NEW_LOOP_PACKET else NEW_ARCHIVE_RECORD
BoundEvent(b) == IF Lower(b) = "loop" THEN "loop" ELSE "archive"

\* faulty variant: only the number of columns is compared
SchemaMatches_Len(dbcol) == Len(dbcol) = Len(MemCol)
\* not (dbcol != memcol)
SchemaMatches(dbcol) == dbcol = MemCol

\* ----------------------------------------------------------------- Init

H0 == [reason |-> 0, ts |-> 0, dist |-> 0, ref |-> 0, exc |-> "none",
       site |-> "none", appends |-> 0, writes |-> 0, data0 |-> <<>>,
       db0 |-> <<>>, id0 |-> 0, landed |-> FALSE]
R0 == [count |-> 0, avg |-> None, idx |-> 0, km |-> None, ev |-> "none"]

\* the service before __init__ has run; prev: edge detection left on the pin
\* by an earlier registration
Svc0(prev) ==
    [phase |-> "new", pkt_binding |-> "archive", dbcol |-> <<>>,
     why |-> "none", sensorConfigured |-> FALSE, detect |-> prev,
     callbacks |-> IF prev THEN 1 ELSE 0, ours |-> FALSE, bound |-> "none",
     cleaned |-> FALSE, otherSeen |-> FALSE]

\* the service after a successful __init__ with the default binding
SvcRunning ==
    [Svc0(FALSE) EXCEPT !.phase = "running", !.sensorConfigured = TRUE,
                        !.detect = TRUE, !.callbacks = 1, !.ours = TRUE,
                        !.bound = BoundEvent("archive")]

\* self.data = [] and the collaborators as the service finds them
Start ==
    /\ data = <<>>
    /\ dataId = 0
    /\ data_binding \in BOOLEAN
    /\ db = <<>>
    /\ sensor = [raises |-> 0, mask |-> FALSE]
    /\ now = 0
    /\ h_pc = "idle"
    /\ h = H0
    /\ r_pc = "idle"
    /\ r = R0
    /\ pkt = [dateTime |-> 0]
    /\ escaped = FALSE
    /\ hist = [nInt |-> 0, nFlush |-> 0, appended |-> 0, reported |-> 0,
               since |-> <<>>, overlap |-> FALSE, quiet |-> FALSE,
               failed |-> FALSE, nWriteFail |-> 0]

\* the running service, constructed with the default binding
Init == svc = SvcRunning /\ Start

\* the service about to be constructed by the engine
InitLife == (\E prev \in BOOLEAN : svc = Svc0(prev)) /\ Start

\* ------------------------------------------------------------- __init__

Rest == <<data, dataId, data_binding, db, sensor, now, h_pc, h, r_pc, r, pkt,
          escaped, hist>>

\* the options are read from config_dict; self.data = []
I_Config ==
    /\ svc.phase = "new"
    /\ \E b \in Bindings, c \in DbCols :
           svc' = [svc EXCEPT !.phase = "schema", !.pkt_binding = b,
                              !.dbcol = IF data_binding THEN c ELSE <<>>]
    /\ UNCHANGED Rest

\* if self.data_binding is not None: compare the stored columns with the schema
I_Schema ==
    /\ svc.phase = "schema"
    /\ svc' = IF data_binding /\ ~SchemaMatches(svc.dbcol)
              THEN [svc EXCEPT !.phase = "init_failed", !.why = "schema"]
              ELSE [svc EXCEPT !.phase = "sensor", !.dbcol = <<>>]
    /\ UNCHANGED Rest

\* self.sensor = RPi_AS3935(...); set_indoors; set_noise_floor; calibrate
I_Sensor ==
    /\ svc.phase = "sensor"
    /\ svc' = [svc EXCEPT !.phase = "remove", !.sensorConfigured = TRUE]
    /\ UNCHANGED Rest

\* faulty variant: the removal is not wrapped in try/except
I_RemoveEventDetect_Raise ==
    /\ svc.phase = "remove"
    /\ \/ svc' = [svc EXCEPT !.phase = "add", !.detect = FALSE,
                               !.callbacks = 0]
       \/ svc' = [svc EXCEPT !.phase = "init_failed", !.why = "gpio"]
    /\ UNCHANGED Rest
\* GPIO.setmode; GPIO.setup; try: GPIO.remove_event_detect(pin) except: pass
I_RemoveEventDetect ==
    /\ svc.phase = "remove"
    /\ \/ svc' = [svc EXCEPT !.phase = "add", !.detect = FALSE,
                               !.callbacks = 0]
       \/ svc' = [svc EXCEPT !.phase = "add", !.why = "remove raised"]
    /\ UNCHANGED Rest

\* GPIO.add_event_detect(pin, GPIO.RISING, callback=self.handle_interrupt);
\* RPi.GPIO raises when edge detection is still enabled on the pin
I_AddEventDetect ==
    /\ svc.phase = "add"
    /\ svc' = IF svc.detect
              THEN [svc EXCEPT !.phase = "init_failed", !.why = "gpio"]
              ELSE [svc EXCEPT !.phase = "bind", !.detect = TRUE,
                               !.callbacks = 1, !.ours = TRUE]
    /\ UNCHANGED Rest

\* self.bind(NEW_LOOP_PACKET, ...) or self.bind(NEW_ARCHIVE_RECORD, ...)
I_Bind ==
    /\ svc.phase = "bind"
    /\ svc' = [svc EXCEPT !.phase = "running", !.why = "none",
                          !.bound = BoundEvent(svc.pkt_binding)]
    /\ UNCHANGED Rest

\* the engine dispatches an event of the type the service is not bound to:
\* no method of the service is called
E_Unbound ==
    /\ svc.phase = "running"
    /\ \E e \in Events :
        /\ e # svc.bound
        /\ svc' = [svc EXCEPT !.otherSeen = TRUE]
    /\ UNCHANGED Rest

\* ------------------------------------------------------------- shutDown

\* GPIO.remove_event_detect(self.pin); when it raises, shutDown is left
S_RemoveEventDetect ==
    /\ svc.phase = "running"
    /\ r_pc = "idle"
    /\ \/ svc' = [svc EXCEPT !.phase = "cleanup", !.detect = FALSE,
                               !.callbacks = 0, !.ours = FALSE]
       \/ svc' = [svc EXCEPT !.phase = "down", !.why = "shutdown"]
    /\ UNCHANGED Rest

\* GPIO.cleanup()
S_Cleanup ==
    /\ svc.phase = "cleanup"
    /\ svc' = [svc EXCEPT !.phase = "down", !.cleaned = TRUE]
    /\ UNCHANGED Rest

\* ------------------------------------------------- handle_interrupt

\* GPIO delivers a rising edge to the registered callback, which starts
\* (time.sleep(0.003))
Deliver(cap) ==
    /\ h_pc = "idle"
    /\ svc' = svc
    /\ svc.ours
    /\ ~escaped
    /\ hist.nInt < cap
    /\ h_pc' = "get_interrupt"
    /\ h' = [H0 EXCEPT !.data0 = data, !.db0 = db, !.id0 = dataId]
    /\ hist' = [hist EXCEPT !.nInt = @ + 1, !.quiet = FALSE]
    /\ UNCHANGED <<data, dataId, data_binding, db, sensor, now, r_pc, r, pkt,
                   escaped>>

H_Interrupt == Deliver(MaxInterrupts)

\* faulty variant: the last branch is an else, so any other reason is a strike
H_GetInterrupt_Else ==
    /\ h_pc = "get_interrupt"
    /\ svc' = svc
    /\ \/ \E reason \in Reasons :
            /\ h' = IF reason \in {NOISE, DISTURBER, STRIKE}
                    THEN [h EXCEPT !.reason = reason] ELSE H0
            /\ h_pc' = CASE reason = NOISE -> "noise"
                         [] reason = DISTURBER -> "disturber"
                         [] OTHER -> "strike"
       \/ /\ h' = [h EXCEPT !.exc = "IOError", !.site = "get_interrupt"]
          /\ h_pc' = "except"
    /\ UNCHANGED <<data, dataId, data_binding, db, sensor, now, r_pc, r, pkt,
                   escaped, hist>>
\* reason = self.sensor.get_interrupt(), then the if/elif dispatch
H_GetInterrupt ==
    /\ h_pc = "get_interrupt"
    /\ svc' = svc
    /\ \/ \E reason \in Reasons :
            /\ h' = IF reason \in {NOISE, DISTURBER, STRIKE}
                    THEN [h EXCEPT !.reason = reason] ELSE H0
            /\ h_pc' = CASE reason = NOISE -> "noise"
                         [] reason = DISTURBER -> "disturber"
                         [] reason = STRIKE -> "strike"
                         [] OTHER -> "idle"
       \/ /\ h' = [h EXCEPT !.exc = "IOError", !.site = "get_interrupt"]
          /\ h_pc' = "except"
    /\ UNCHANGED <<data, dataId, data_binding, db, sensor, now, r_pc, r, pkt,
                   escaped, hist>>

\* faulty variant: the noise branch also masks disturbers
H_RaiseNoiseFloor_Mask ==
    /\ h_pc = "noise"
    /\ svc' = svc
    /\ \/ /\ sensor' = [raises |-> sensor.raises + 1, mask |-> TRUE]
          /\ h_pc' = "idle"
          /\ h' = H0
       \/ /\ h' = [h EXCEPT !.exc = "IOError", !.site = "raise_noise_floor"]
          /\ h_pc' = "except"
          /\ sensor' = sensor
    /\ UNCHANGED <<data, dataId, data_binding, db, now, r_pc, r, pkt, escaped,
                   hist>>
\* self.sensor.raise_noise_floor()
H_RaiseNoiseFloor ==
    /\ h_pc = "noise"
    /\ svc' = svc
    /\ \/ /\ sensor' = [sensor EXCEPT !.raises = @ + 1]
          /\ h_pc' = "idle"
          /\ h' = H0
       \/ /\ h' = [h EXCEPT !.exc = "IOError", !.site = "raise_noise_floor"]
          /\ h_pc' = "except"
          /\ sensor' = sensor
    /\ UNCHANGED <<data, dataId, data_binding, db, now, r_pc, r, pkt, escaped,
                   hist>>

\* self.sensor.set_mask_disturber(True)
H_MaskDisturber ==
    /\ h_pc = "disturber"
    /\ svc' = svc
    /\ \/ /\ sensor' = [sensor EXCEPT !.mask = TRUE]
          /\ h_pc' = "idle"
          /\ h' = H0
       \/ /\ h' = [h EXCEPT !.exc = "IOError", !.site = "set_mask_disturber"]
          /\ h_pc' = "except"
          /\ sensor' = sensor
    /\ UNCHANGED <<data, dataId, data_binding, db, now, r_pc, r, pkt, escaped,
                   hist>>

\* strike_ts = int(time.time()); distance = float(self.sensor.get_distance())
H_GetDistance ==
    /\ h_pc = "strike"
    /\ svc' = svc
    /\ \E t \in now .. MaxClock :
        /\ now' = t
        /\ \/ \E d \in Distances :
                /\ h' = [h EXCEPT !.ts = t, !.dist = d]
                /\ h_pc' = "load"
           \/ /\ h' = [h EXCEPT !.ts = t, !.exc = "IOError",
                                !.site = "get_distance"]
              /\ h_pc' = "except"
    /\ UNCHANGED <<data, dataId, data_binding, db, sensor, r_pc, r, pkt,
                   escaped, hist>>

\* self.data.append(...): the attribute self.data is evaluated first
H_LoadData ==
    /\ h_pc = "load"
    /\ svc' = svc
    /\ h' = [h EXCEPT !.ref = dataId]
    /\ h_pc' = "append"
    /\ hist' = [hist EXCEPT !.overlap = @ \/ r_pc # "idle"]
    /\ UNCHANGED <<data, dataId, data_binding, db, sensor, now, r_pc, r, pkt,
                   escaped>>

\* faulty variant: the event is put into the list twice
H_Append_Twice ==
    /\ h_pc = "append"
    /\ svc' = svc
    /\ data' = IF h.ref = dataId
               THEN Append(Append(data, <<h.ts, h.dist>>), <<h.ts, h.dist>>)
               ELSE data
    /\ h' = [h EXCEPT !.appends = @ + 1, !.ref = 0,
                      !.landed = (h.ref = dataId)]
    /\ h_pc' = "save"
    /\ hist' = [hist EXCEPT !.appended = @ + 1,
                            !.since = Append(@, <<h.ts, h.dist>>),
                            !.overlap = @ \/ r_pc # "idle"]
    /\ UNCHANGED <<dataId, data_binding, db, sensor, now, r_pc, r, pkt,
                   escaped>>
\* self.data.append(...): list.append on the object evaluated before; when
\* read_data rebound self.data in between, that object is no longer the buffer
H_Append ==
    /\ h_pc = "append"
    /\ svc' = svc
    /\ data' = IF h.ref = dataId THEN Append(data, <<h.ts, h.dist>>) ELSE data
    /\ h' = [h EXCEPT !.appends = @ + 1, !.ref = 0,
                      !.landed = (h.ref = dataId)]
    /\ h_pc' = "save"
    /\ hist' = [hist EXCEPT !.appended = @ + 1,
                            !.since = Append(@, <<h.ts, h.dist>>),
                            !.overlap = @ \/ r_pc # "idle"]
    /\ UNCHANGED <<dataId, data_binding, db, sensor, now, r_pc, r, pkt,
                   escaped>>

\* self.save_data(strike_ts, distance)
H_SaveData ==
    /\ h_pc = "save"
    /\ svc' = svc
    /\ IF ~data_binding
       THEN /\ h_pc' = "idle"
            /\ h' = H0
            /\ UNCHANGED <<db, hist>>
       ELSE \/ /\ db' = Append(db, StrikeRec(h.ts, h.dist))
               /\ h' = H0
               /\ h_pc' = "idle"
               /\ hist' = hist
            \/ /\ db' = db
               /\ h' = [h EXCEPT !.writes = @ + 1, !.exc = "DatabaseError",
                                 !.site = "save_data"]
               /\ h_pc' = "except"
               /\ hist' = [hist EXCEPT !.nWriteFail = @ + 1]
    /\ UNCHANGED <<data, dataId, data_binding, sensor, now, r_pc, r, pkt,
                   escaped>>

\* faulty variant: the except clause buffers a placeholder event
H_Except_Append ==
    /\ h_pc = "except"
    /\ svc' = svc
    /\ h_pc' = "idle"
    /\ escaped' = ~Catches(h.exc)
    /\ data' = Append(data, <<h.ts, 0>>)
    /\ h' = H0
    /\ hist' = [hist EXCEPT !.failed = TRUE]
    /\ UNCHANGED <<dataId, data_binding, db, sensor, now, r_pc, r, pkt>>
\* except Exception as e: logerr(...)
H_Except ==
    /\ h_pc = "except"
    /\ svc' = svc
    /\ h_pc' = "idle"
    /\ escaped' = ~Catches(h.exc)
    /\ h' = H0
    /\ hist' = [hist EXCEPT !.failed = TRUE]
    /\ UNCHANGED <<data, dataId, data_binding, db, sensor, now, r_pc, r, pkt>>

\* ------------------------------------------------------------ read_data

\* the engine dispatches an event of the bound type:
\* new_archive_record / new_loop_packet -> read_data(pkt):
\* avg = None; count = len(self.data); if count: avg = 0
ReadData(cap) ==
    /\ r_pc = "idle"
    /\ svc' = svc
    /\ svc.phase = "running"
    /\ hist.nFlush < cap
    /\ \E p \in Packets : pkt' = p
    /\ \E e \in Events :
        /\ e = svc.bound
        /\ r' = [count |-> Len(data),
                 avg |-> IF Len(data) # 0 THEN Zero ELSE None,
                 idx |-> 0, km |-> None, ev |-> e]
    /\ r_pc' = IF Len(data) # 0 THEN "loop" ELSE "store"
    /\ hist' = [hist EXCEPT !.overlap = @ \/ h_pc = "append"]
    /\ UNCHANGED <<data, dataId, data_binding, db, sensor, now, h_pc, h,
                   escaped>>

R_Len == ReadData(MaxFlushes)

\* for x in self.data: avg += x[1]   (one step of the list iterator, which
\* looks at the list's current length), and on exhaustion avg /= count
R_Next ==
    /\ r_pc = "loop"
    /\ svc' = svc
    /\ IF r.idx < Len(data)
       THEN /\ r' = [r EXCEPT !.avg = AddDist(@, data[r.idx + 1]),
                              !.idx = @ + 1]
            /\ r_pc' = "loop"
       ELSE /\ r' = [r EXCEPT !.avg = DivCount(@, r.count)]
            /\ r_pc' = "store"
    /\ UNCHANGED <<data, dataId, data_binding, db, sensor, now, h_pc, h, pkt,
                   escaped, hist>>

\* the unit conversion and the two stores into pkt
R_Store ==
    /\ r_pc = "store"
    /\ svc' = svc
    /\ LET avg == IF IsUS(pkt) THEN Convert(r.avg) ELSE r.avg
       IN /\ pkt' = Augment(pkt, avg, r.count)
          /\ r' = [r EXCEPT !.km = r.avg, !.avg = avg]
    /\ r_pc' = "clear"
    /\ UNCHANGED <<data, dataId, data_binding, db, sensor, now, h_pc, h,
                   escaped, hist>>

\* faulty variant: the buffer is not reset
R_Clear_Keep ==
    /\ r_pc = "clear"
    /\ svc' = svc
    /\ r_pc' = "idle"
    /\ r' = R0
    /\ pkt' = [dateTime |-> 0]
    /\ hist' = [hist EXCEPT !.nFlush = @ + 1,
                            !.reported = @ + r.count,
                            !.since = <<>>,
                            !.overlap = (h_pc = "append"),
                            !.quiet = (h_pc = "idle")]
    /\ UNCHANGED <<data, dataId, data_binding, db, sensor, now, h_pc, h,
                   escaped>>
\* self.data = []
R_Clear ==
    /\ r_pc = "clear"
    /\ svc' = svc
    /\ data' = <<>>
    /\ dataId' = dataId + 1
    /\ r_pc' = "idle"
    /\ r' = R0
    /\ pkt' = [dateTime |-> 0]
    /\ hist' = [hist EXCEPT !.nFlush = @ + 1,
                            !.reported = @ + r.count,
                            !.since = <<>>,
                            !.overlap = (h_pc = "append"),
                            !.quiet = (h_pc = "idle")]
    /\ UNCHANGED <<data_binding, db, sensor, now, h_pc, h, escaped>>

\* ------------------------------------------------------------------ Spec

Next ==
    \/ H_Interrupt
    \/ H_GetInterrupt
    \/ H_RaiseNoiseFloor
    \/ H_MaskDisturber
    \/ H_GetDistance
    \/ H_LoadData
    \/ H_Append
    \/ H_SaveData
    \/ H_Except
    \/ R_Len
    \/ R_Next
    \/ R_Store
    \/ R_Clear

Spec == Init /\ [][Next]_vars

\* the same callbacks under the smaller caps
L_Interrupt == Deliver(MaxLifeInterrupts)
L_Len == ReadData(MaxLifeFlushes)

\* the whole life of the service: __init__, the callbacks, shutDown
NextLife ==
    \/ I_Config
    \/ I_Schema
    \/ I_Sensor
    \/ I_RemoveEventDetect
    \/ I_AddEventDetect
    \/ I_Bind
    \/ E_Unbound
    \/ S_RemoveEventDetect
    \/ S_Cleanup
    \/ L_Interrupt
    \/ H_GetInterrupt
    \/ H_RaiseNoiseFloor
    \/ H_MaskDisturber
    \/ H_GetDistance
    \/ H_LoadData
    \/ H_Append
    \/ H_SaveData
    \/ H_Except
    \/ L_Len
    \/ R_Next
    \/ R_Store
    \/ R_Clear

SpecLife == InitLife /\ [][NextLife]_vars

\* ---------------------------------------------------------- properties

Idle == h_pc = "idle" /\ r_pc = "idle"
Mean(s) == <<SumDist(s), Len(s)>>
SensorReadSites == {"get_interrupt", "get_distance"}
HandlerReturns == h_pc # "idle" /\ h_pc' = "idle"

\* C1: with handle_interrupt and read_data interleaving, every appended
\* strike is counted in exactly one record: once both threads are idle, the
\* strikes reported so far plus those still buffered are all strikes appended.
C1_ExactlyOnce == Idle => hist.reported + Len(data) = hist.appended

\* C2: when no append overlaps a flush, read_data writes lightning_strikes =
\* number of events appended since the previous flush, and for a positive
\* count the kilometre average is the arithmetic mean of their distances.
C2_CountAndMean ==
    (r_pc = "clear" /\ ~hist.overlap) =>
        /\ pkt["lightning_strikes"] = Len(hist.since)
        /\ Len(hist.since) > 0 =>
            /\ r.km = Mean(hist.since)
            /\ ~("usUnits" \in DOMAIN pkt /\ pkt["usUnits"] = US) =>
                   pkt["avg_distance"] = Mean(hist.since)
C2_Witness ==
    /\ r_pc = "clear" /\ ~hist.overlap
    /\ Len(hist.since) = 2 /\ hist.since[1][2] = 2 /\ hist.since[2][2] = 6
    /\ pkt["lightning_strikes"] = 2
    /\ pkt["avg_distance"] = <<8, 2>>

\* C3: read_data on an empty buffer completes and writes count 0 with
\* avg_distance None for every unit system; avg_distance is a number only
\* when the count is positive.
C3_EmptyFlush ==
    /\ r_pc = "store" => ENABLED R_Store
    /\ r_pc = "clear" =>
        /\ "lightning_strikes" \in DOMAIN pkt /\ "avg_distance" \in DOMAIN pkt
        /\ (hist.since = <<>> /\ ~hist.overlap) => pkt["lightning_strikes"] = 0
        /\ pkt["lightning_strikes"] = 0 => pkt["avg_distance"] = None
        /\ pkt["avg_distance"] # None => pkt["lightning_strikes"] > 0
C3_Witness ==
    /\ r_pc = "clear"
    /\ "usUnits" \in DOMAIN pkt /\ pkt["usUnits"] = US
    /\ pkt["lightning_strikes"] = 0 /\ pkt["avg_distance"] = None

\* C4: the step that completes read_data leaves the buffer empty; a
\* read_data that follows a completed one with no interrupt in between
\* reports 0; the buffer only holds events appended since the last
\* completed flush.
C4_BufferInv ==
    /\ (r_pc = "clear" /\ hist.quiet) => pkt["lightning_strikes"] = 0
    /\ hist.quiet => data = <<>>
    /\ Len(data) <= Len(hist.since)
    /\ \A i \in 1 .. Len(data) : \E j \in 1 .. Len(hist.since) :
           hist.since[j] = data[i]
C4_EmptyAfterFlush ==
    [](C4_BufferInv) /\ [][(r_pc = "clear" /\ r_pc' = "idle") => data' = <<>>]_vars
C4_Witness ==
    /\ r_pc = "clear" /\ hist.quiet
    /\ hist.nFlush = 1 /\ hist.reported >= 1
    /\ pkt["lightning_strikes"] = 0

\* C5: a noise or disturber interrupt never appends to the buffer; a strike
\* interrupt whose distance read succeeded appends exactly one event, with
\* the distance the sensor returned, to the buffer.
C5_Classification ==
    [][/\ (h_pc \in {"noise", "disturber"} /\ h_pc' # h_pc) => data' = data
       /\ (h_pc = "append" /\ h_pc' = "save") =>
              /\ data' = Append(data, <<h.ts, h.dist>>)
              /\ h'.appends = 1]_vars

\* C6: no exception leaves handle_interrupt, whichever step raised, and after
\* a failure the callback and the periodic flush can still run.
C6_NoEscape ==
    /\ ~escaped
    /\ (hist.failed /\ h_pc = "idle" /\ hist.nInt < MaxInterrupts) =>
           ENABLED H_Interrupt
    /\ (hist.failed /\ r_pc = "idle" /\ hist.nFlush < MaxFlushes) =>
           ENABLED R_Len
C6_Witness ==
    /\ hist.failed /\ ~escaped
    /\ h_pc = "append"
    /\ r_pc = "loop"

\* C7 as stated: when a sensor read raised, the buffer and the Recorder are
\* the same when the handler returns as when it was called.
C7_SameAsBefore ==
    [][(HandlerReturns /\ h.site \in SensorReadSites) =>
           (data' = h.data0 /\ db' = h.db0)]_vars
\* C7 amended: when a sensor read raised, the handler has appended nothing and
\* written nothing; the Recorder is as at the call, and the buffer is as at
\* the call unless read_data rebound it meanwhile, and then it is empty.
C7_HandlerNoEffect ==
    [][(HandlerReturns /\ h.site \in SensorReadSites) =>
           /\ h.appends = 0 /\ h.writes = 0
           /\ db' = h.db0
           /\ dataId' = h.id0 => data' = h.data0
           /\ dataId' # h.id0 => data' = <<>>]_vars
C7_Witness ==
    /\ h_pc = "except" /\ h.site = "get_distance"
    /\ data # <<>> /\ data = h.data0
    /\ data_binding /\ db # <<>> /\ db = h.db0

\* C8: a strike whose Recorder write failed is still counted: once both
\* threads are idle, the strikes whose write failed are among those reported
\* or still buffered; a failed write is not attempted again.
C8_FailedWriteCounted ==
    /\ h.writes <= 1
    /\ Idle => hist.nWriteFail <= hist.reported + Len(data)

\* C9: with a binding every strike whose distance was read gets exactly one
\* write attempt, and every row written is that strike's timestamp, its
\* distance and the METRIC tag; without a binding nothing is ever written.
C9_Attempts ==
    /\ h.writes <= 1
    /\ data_binding =>
           Len(db) + hist.nWriteFail =
               hist.appended - (IF h_pc = "save" THEN 1 ELSE 0)
    /\ ~data_binding => (db = <<>> /\ hist.nWriteFail = 0)
C9_OneWrite ==
    [](C9_Attempts) /\
    [][db' # db =>
           /\ h_pc = "save" /\ data_binding
           /\ db' = Append(db, [dateTime |-> h.ts, usUnits |-> 16,
                                distance |-> h.dist])]_vars
C9_Witness ==
    /\ data_binding /\ Idle
    /\ Len(db) = 2 /\ hist.appended = 2
    /\ db[1] = [dateTime |-> 0, usUnits |-> 16, distance |-> 6]
    /\ db[2] = [dateTime |-> 1, usUnits |-> 16, distance |-> 2]

\* C10: for a US record with a positive count avg_distance is the kilometre
\* mean times 0.621371; for a metric record or one without usUnits it is the
\* kilometre mean itself.
C10_Units ==
    r_pc = "clear" =>
        /\ IF "usUnits" \in DOMAIN pkt /\ pkt["usUnits"] = 1 /\ r.count > 0
           THEN pkt["avg_distance"] = <<r.km[1] * 621371, r.km[2] * 1000000>>
           ELSE pkt["avg_distance"] = r.km
        /\ (~hist.overlap /\ r.count > 0) => r.km = Mean(hist.since)
C10_Witness ==
    /\ r_pc = "clear" /\ ~hist.overlap
    /\ "usUnits" \in DOMAIN pkt /\ pkt["usUnits"] = 1
    /\ pkt["lightning_strikes"] = 2
    /\ pkt["avg_distance"] = <<8 * 621371, 2 * 1000000>>

\* C11: shutDown always removes the interrupt registration and releases the
\* pins, also when an earlier step failed, and once it is over no new
\* interrupt is handled.
C11_ShutdownReleases ==
    /\ [](svc.phase = "down" => (svc.cleaned /\ ~svc.ours /\ ~svc.detect))
    /\ [][(svc.phase = "down" /\ h_pc = "idle") => h_pc' = "idle"]_vars

\* C12: with a binding configured, stored columns that differ from the
\* schema's make __init__ raise, and then the sensor is not configured, no
\* callback is registered and no engine event is bound.
C12_SchemaMismatchFails ==
    /\ []((svc.phase = "init_failed" /\ svc.why = "schema") =>
            /\ ~svc.sensorConfigured
            /\ ~svc.ours
            /\ svc.bound = "none")
    /\ [][(svc.phase = "schema" /\ data_binding
           /\ svc.dbcol # <<"dateTime", "usUnits", "distance">>) =>
              (svc.phase' = "init_failed" /\ svc.why' = "schema")]_vars
C12_Witness ==
    /\ svc.phase = "init_failed" /\ svc.why = "schema"
    /\ data_binding
    /\ svc.dbcol = <<"dateTime", "usUnits", "dist">>
    /\ ~svc.sensorConfigured /\ ~svc.ours /\ svc.bound = "none"

\* C13: under any interleaving the kilometre average written to a record is
\* the mean of the events counted in it (the first count elements of the
\* list), hence between the smallest and the largest of their distances.
C13_MeanOfCounted ==
    (r_pc = "clear" /\ r.count > 0) =>
        /\ r.km = Mean(SubSeq(data, 1, r.count))
        /\ \E i \in 1 .. r.count : data[i][2] * r.km[2] <= r.km[1]
        /\ \E j \in 1 .. r.count : r.km[1] <= data[j][2] * r.km[2]

\* C14: no strike is reported twice: the strikes reported in all records so
\* far plus those in the buffer never exceed the strikes appended so far.
C14_NoDoubleReport == hist.reported + Len(data) <= hist.appended
C14_Witness ==
    /\ Idle
    /\ hist.nFlush = 2
    /\ hist.reported = 1 /\ Len(data) = 1 /\ hist.appended = 2

\* C15: the noise branch calls raise_noise_floor once and leaves the mask,
\* the buffer and the Recorder alone; the disturber branch sets the mask and
\* leaves the noise floor, the buffer and the Recorder alone.
C15_Step ==
    /\ (h_pc = "noise" /\ h_pc' # "noise") =>
          /\ h_pc' = "idle" => sensor'.raises = sensor.raises + 1
          /\ h_pc' = "except" => sensor'.raises = sensor.raises
          /\ sensor'.mask = sensor.mask
          /\ data' = data /\ db' = db
    /\ (h_pc = "disturber" /\ h_pc' # "disturber") =>
          /\ h_pc' = "idle" => sensor'.mask = TRUE
          /\ h_pc' = "except" => sensor'.mask = sensor.mask
          /\ sensor'.raises = sensor.raises
          /\ data' = data /\ db' = db
    /\ (h_pc = "get_interrupt" /\ h_pc' \in {"noise", "disturber"}) =>
          (sensor' = sensor /\ data' = data /\ db' = db)
    /\ (h_pc = "except" /\ h.reason \in {1, 4} /\ h_pc' = "idle") =>
          (sensor' = sensor /\ data' = data /\ db' = db)
C15_NoiseAndDisturber ==
    /\ [](/\ h_pc = "noise" => h.reason = 1
          /\ h_pc = "disturber" => h.reason = 4)
    /\ [][C15_Step]_vars
C15_Witness ==
    /\ Idle
    /\ sensor = [raises |-> 1, mask |-> TRUE]
    /\ hist.nInt = 2 /\ ~hist.failed
    /\ data = <<>> /\ db = <<>>

\* C16: an interrupt whose reason is none of 0x01, 0x04, 0x08 enters no
\* branch: the handler returns with the buffer, the sensor settings and the
\* Recorder as they were.
C16_UnknownReasonNoOp ==
    /\ [](/\ h_pc = "noise" => h.reason = 1
          /\ h_pc = "disturber" => h.reason = 4
          /\ h_pc \in {"strike", "load", "append", "save"} => h.reason = 8)
    /\ [][(h_pc = "get_interrupt" /\ h_pc' = "idle") =>
             (data' = data /\ sensor' = sensor /\ db' = db)]_vars
C16_Witness ==
    /\ h_pc = "idle"
    /\ hist.nInt = 1 /\ ~hist.failed /\ hist.appended = 0
    /\ sensor = [raises |-> 0, mask |-> FALSE]
    /\ data = <<>> /\ db = <<>>

\* C17: the service is bound to one event type for good: 'loop' in any
\* letter case binds loop packets, every other value archive records; only
\* events of that type run read_data, and an event of the other type leaves
\* the buffer, the record and read_data untouched.
C17_Expected ==
    IF svc.pkt_binding \in {"loop", "LOOP", "Loop"} THEN "loop" ELSE "archive"
C17_OneEventType ==
    /\ [](/\ svc.phase \in {"running", "cleanup", "down"} =>
               svc.bound = C17_Expected
          /\ r_pc # "idle" => r.ev = C17_Expected)
    /\ [][/\ svc.bound # "none" => svc.bound' = svc.bound
          /\ svc.otherSeen' # svc.otherSeen =>
                (data' = data /\ pkt' = pkt /\ r_pc' = r_pc /\ r' = r)]_vars
C17_Witness ==
    /\ svc.pkt_binding = "LOOP" /\ svc.bound = "loop"
    /\ svc.otherSeen
    /\ r_pc = "clear" /\ r.ev = "loop"
    /\ pkt["lightning_strikes"] = 1

\* C18: read_data only adds or overwrites avg_distance and lightning_strikes
\* in the record; every other field keeps its value, and neither the sensor
\* nor the Recorder is touched.
C18_Step ==
    /\ (r_pc = "store" /\ r_pc' = "clear") =>
          /\ DOMAIN pkt' = DOMAIN pkt \cup {"avg_distance", "lightning_strikes"}
          /\ \A k \in DOMAIN pkt \ {"avg_distance", "lightning_strikes"} :
                 pkt'[k] = pkt[k]
    /\ (r_pc = "loop" /\ (r_pc' # r_pc \/ r' # r)) => pkt' = pkt
    /\ (r_pc' # r_pc \/ r' # r) => (sensor' = sensor /\ db' = db)
C18_OnlyTwoFields == [][C18_Step]_vars
C18_Witness ==
    /\ r_pc = "clear"
    /\ DOMAIN pkt = {"dateTime", "usUnits", "avg_distance", "lightning_strikes"}
    /\ pkt["usUnits"] = 16 /\ pkt["dateTime"] = 0
    /\ pkt["lightning_strikes"] = 2
    /\ sensor.raises = 0 /\ db = <<>>

\* C19: whether GPIO.remove_event_detect succeeds or raises, __init__ goes on
\* to add_event_detect, and a service whose __init__ succeeded has exactly one
\* callback on the pin, its own.
C19_BestEffortRemoval ==
    /\ [](svc.phase \in {"bind", "running"} =>
             (svc.callbacks = 1 /\ svc.ours /\ svc.detect))
    /\ [][svc.phase = "remove" => svc.phase' = "add"]_vars
C19_Witness ==
    /\ svc.phase = "bind"
    /\ svc.why = "remove raised"
    /\ svc.callbacks = 1 /\ svc.ours

\* C20: the append precedes the Recorder write, so every row the Recorder
\* gets is an event that was put into the buffer before, with the same
\* timestamp and distance, and the rows never outnumber the appended events.
C20_AppendBeforeWrite ==
    /\ [](Len(db) <= hist.appended)
    /\ [][db' # db =>
             /\ h.appends = 1 /\ h.landed
             /\ db' = Append(db, [dateTime |-> h.ts, usUnits |-> 16,
                                  distance |-> h.dist])]_vars

====
